---- MODULE Spec2Model ----
(***************************************************************************)
(* Model of merge_epg.py: download EPG documents, parse them (with the     *)
(* ampersand repair and the lang normalisation), merge them with           *)
(* de-duplication of channels and programmes, and save the result.         *)
(*                                                                         *)
(* An XML element is a record                                              *)
(*    [tag, attrib, text, kids]                                            *)
(* where attrib is a function from the names of the attributes that are    *)
(* present to their values (the Python dict elem.attrib), text and every   *)
(* attribute value is a sequence of one-character strings (a Python str)   *)
(* and kids is the sequence of child elements in document order.           *)
(***************************************************************************)
EXTENDS Integers, Sequences, FiniteSets, TLC

VARIABLES pc, i, fetched, data, root, epg_roots, log,
          merged_root, seen_channels, seen_programs, ri, ei, file

vars == <<pc, i, fetched, data, root, epg_roots, log,
          merged_root, seen_channels, seen_programs, ri, ei, file>>

(***************************************************************************)
(* Configuration (merge_epg.py lines 7-13)                                 *)
(***************************************************************************)
EPG_URLS ==
  << "https://github.com/globetvapp/epg/raw/main/Bulgaria/bulgaria1.xml",
     "https://iptv-epg.org/files/epg-bg.xml",
     "https://github.com/harrygg/EPG/raw/refs/heads/master/all-3days.basic.epg.xml.gz" >>

\* url.endswith(".gz"): strings are atomic here, so the URLs with that suffix are listed
GzUrls ==
  { "https://github.com/harrygg/EPG/raw/refs/heads/master/all-3days.basic.epg.xml.gz" }

OUTPUT_FILE == "merged_epg.xml"

DEFAULT_LANG == <<"b", "g">>

\* Python's None, the value of elem.get(name) for an attribute that is absent.
\* It is no sequence of characters, so no attribute value is equal to it.
None == <<"<None>">>

(***************************************************************************)
(* Bounds of the model                                                     *)
(***************************************************************************)
\* most documents handed to merge_epgs when it is checked on its own
MaxDocs == 2

\* most elements in all these documents together
MaxElems == 4

\* most children of the root of a document handed to safe_parse_xml on its own
MaxKids == 2

BSeq(S, n) == UNION { [1..k -> S] : k \in 0..n }

(***************************************************************************)
(* Elements                                                                *)
(***************************************************************************)
Elem(tag, attrib, text, kids) ==
  [tag |-> tag, attrib |-> attrib, text |-> text, kids |-> kids]

NoAttrib == [n \in {} |-> <<>>]

\* Get with an absent attribute read as the empty string
GetOrEmpty(elem, name) ==
  IF name \in DOMAIN elem.attrib THEN elem.attrib[name] ELSE <<>>

\* elem.get(name)
Get(elem, name) ==
  IF name \in DOMAIN elem.attrib THEN elem.attrib[name] ELSE None

\* elem.set(name, value)
SetAttr(elem, name, value) ==
  [elem EXCEPT !.attrib =
      [n \in (DOMAIN elem.attrib) \cup {name} |->
          IF n = name THEN value ELSE elem.attrib[n]]]

\* root.findall(tag): the direct children with that tag, in document order
RECURSIVE FilterTag(_, _)
FilterTag(kids, tag) ==
  IF kids = <<>> THEN <<>>
  ELSE IF Head(kids).tag = tag
       THEN <<Head(kids)>> \o FilterTag(Tail(kids), tag)
       ELSE FilterTag(Tail(kids), tag)

findall(elem, tag) == FilterTag(elem.kids, tag)

(***************************************************************************)
(* XML text: character data and attribute values as they are written in    *)
(* the file, and what the parser of line 33 makes of them.  A character is *)
(* a one-character string; a character outside ASCII, and the grave accent *)
(* that no string of TLA+ holds, is written "U+n", n its code point in     *)
(* decimal.  The documents have no DTD, so the only entities are the five  *)
(* predefined ones, and attribute values are written between double        *)
(* quotes.                                                                 *)
(***************************************************************************)
AmpEntity == <<"&", "a", "m", "p", ";">>

\* the predefined entities: name and character
PredefinedEntities ==
  (<<"a", "m", "p">> :> "&") @@ (<<"l", "t">> :> "<") @@ (<<"g", "t">> :> ">")
    @@ (<<"q", "u", "o", "t">> :> "\"") @@ (<<"a", "p", "o", "s">> :> "'")

DigitValue ==
  ("0" :> 0) @@ ("1" :> 1) @@ ("2" :> 2) @@ ("3" :> 3) @@ ("4" :> 4)
    @@ ("5" :> 5) @@ ("6" :> 6) @@ ("7" :> 7) @@ ("8" :> 8) @@ ("9" :> 9)
    @@ ("a" :> 10) @@ ("b" :> 11) @@ ("c" :> 12) @@ ("d" :> 13) @@ ("e" :> 14)
    @@ ("f" :> 15) @@ ("A" :> 10) @@ ("B" :> 11) @@ ("C" :> 12) @@ ("D" :> 13)
    @@ ("E" :> 14) @@ ("F" :> 15)

DecDigits == {"0", "1", "2", "3", "4", "5", "6", "7", "8", "9"}

HexDigits == DOMAIN DigitValue

MaxCodePoint == 1114111

\* the number a string of digits denotes, MaxCodePoint + 1 for every larger one
RECURSIVE Number(_, _, _)
Number(digits, base, acc) ==
  IF digits = <<>> THEN acc
  ELSE LET n == acc * base + DigitValue[Head(digits)]
       IN  Number(Tail(digits), base, IF n > MaxCodePoint THEN MaxCodePoint + 1 ELSE n)

\* the code points a character reference may name (the production Char of XML 1.0)
XmlChar(n) ==
  \/ n = 9 \/ n = 10 \/ n = 13
  \/ (32 <= n /\ n <= 55295)
  \/ (57344 <= n /\ n <= 65533)
  \/ (65536 <= n /\ n <= MaxCodePoint)

\* the characters 32 .. 95 and 97 .. 126
Ascii ==
  << " ", "!", "\"", "#", "$", "%", "&", "'", "(", ")", "*", "+", ",", "-", ".", "/",
     "0", "1", "2", "3", "4", "5", "6", "7", "8", "9", ":", ";", "<", "=", ">", "?",
     "@", "A", "B", "C", "D", "E", "F", "G", "H", "I", "J", "K", "L", "M", "N", "O",
     "P", "Q", "R", "S", "T", "U", "V", "W", "X", "Y", "Z", "[", "\\", "]", "^", "_",
     "a", "b", "c", "d", "e", "f", "g", "h", "i", "j", "k", "l", "m", "n", "o",
     "p", "q", "r", "s", "t", "u", "v", "w", "x", "y", "z", "{", "|", "}", "~" >>

\* the character with code point n
Chr(n) ==
  IF 32 <= n /\ n <= 95 THEN Ascii[n - 31]
  ELSE IF 97 <= n /\ n <= 126 THEN Ascii[n - 32]
  ELSE IF n = 9 THEN "\t"
  ELSE IF n = 10 THEN "\n"
  ELSE IF n = 13 THEN "\r"
  ELSE "U+" \o ToString(n)

\* the characters a document cannot hold as such: those of the UTF-8 text
\* whose code point is not one of XmlChar
ForbiddenRaw == { Chr(n) : n \in { k \in (0..31) \cup {65534, 65535} : ~XmlChar(k) } }

IsPrefix(p, s) == Len(p) <= Len(s) /\ SubSeq(s, 1, Len(p)) = p

\* the index of the first ";" of s, 0 when it has none
Semi(s) ==
  IF \E k \in DOMAIN s : s[k] = ";"
  THEN CHOOSE k \in DOMAIN s : s[k] = ";" /\ \A j \in 1..(k - 1) : s[j] # ";"
  ELSE 0

\* what the parser puts for the reference "&" body ";": one character for a
\* predefined entity, a decimal (&#38;) or a hexadecimal (&#x26;) character
\* reference, and <<>> for a body it rejects
Reference(body) ==
  IF body \in DOMAIN PredefinedEntities THEN <<PredefinedEntities[body]>>
  ELSE IF Len(body) >= 2 /\ body[1] = "#"
       THEN LET hex    == body[2] = "x"
                digits == SubSeq(body, IF hex THEN 3 ELSE 2, Len(body))
                n      == Number(digits, IF hex THEN 16 ELSE 10, 0)
            IN  IF /\ digits # <<>>
                   /\ \A k \in DOMAIN digits :
                         digits[k] \in (IF hex THEN HexDigits ELSE DecDigits)
                   /\ XmlChar(n)
                THEN <<Chr(n)>>
                ELSE <<>>
       ELSE <<>>

\* the reference that starts s, which starts with "&": <<>> when there is none
HeadReference(s) ==
  IF Semi(s) = 0 THEN <<>> ELSE Reference(SubSeq(s, 2, Semi(s) - 1))

\* the parser accepts character data iff every "&" starts a reference it
\* knows and there is no "<" (one that starts no markup), no "]]>" and no
\* forbidden character in it
RECURSIVE WellFormedText(_)
WellFormedText(s) ==
  IF s = <<>> THEN TRUE
  ELSE IF Head(s) = "&"
       THEN /\ HeadReference(s) # <<>>
            /\ WellFormedText(SubSeq(s, Semi(s) + 1, Len(s)))
       ELSE /\ Head(s) # "<"
            /\ Head(s) \notin ForbiddenRaw
            /\ ~IsPrefix(<<"]", "]", ">">>, s)
            /\ WellFormedText(Tail(s))

\* the parser accepts an attribute value iff every "&" starts a reference it
\* knows and there is no "<", no double quote and no forbidden character in it
RECURSIVE WellFormedAttr(_)
WellFormedAttr(s) ==
  IF s = <<>> THEN TRUE
  ELSE IF Head(s) = "&"
       THEN /\ HeadReference(s) # <<>>
            /\ WellFormedAttr(SubSeq(s, Semi(s) + 1, Len(s)))
       ELSE /\ Head(s) # "<"
            /\ Head(s) # "\""
            /\ Head(s) \notin ForbiddenRaw
            /\ WellFormedAttr(Tail(s))

\* the character data the parser delivers for well-formed text: references
\* replaced by their characters, and every line end written as carriage
\* return, with or without a line feed, turned into one line feed
RECURSIVE Unescape(_)
Unescape(s) ==
  IF s = <<>> THEN <<>>
  ELSE IF Head(s) = "&" /\ HeadReference(s) # <<>>
       THEN HeadReference(s) \o Unescape(SubSeq(s, Semi(s) + 1, Len(s)))
       ELSE IF Head(s) = "\r"
            THEN <<"\n">> \o Unescape(IF IsPrefix(<<"\r", "\n">>, s)
                                       THEN Tail(Tail(s)) ELSE Tail(s))
            ELSE <<Head(s)>> \o Unescape(Tail(s))

\* the attribute value the parser delivers: references replaced by their
\* characters, and every line end and tab that is written as such turned
\* into one space
RECURSIVE UnescapeAttr(_)
UnescapeAttr(s) ==
  IF s = <<>> THEN <<>>
  ELSE IF Head(s) = "&" /\ HeadReference(s) # <<>>
       THEN HeadReference(s) \o UnescapeAttr(SubSeq(s, Semi(s) + 1, Len(s)))
       ELSE IF Head(s) = "\r"
            THEN <<" ">> \o UnescapeAttr(IF IsPrefix(<<"\r", "\n">>, s)
                                          THEN Tail(Tail(s)) ELSE Tail(s))
            ELSE IF Head(s) \in {"\n", "\t"}
                 THEN <<" ">> \o UnescapeAttr(Tail(s))
                 ELSE <<Head(s)>> \o UnescapeAttr(Tail(s))

\* str.replace("&", "&amp;") on a stretch of the document
RECURSIVE ReplaceAmp(_)
ReplaceAmp(s) ==
  IF s = <<>> THEN <<>>
  ELSE IF Head(s) = "&"
       THEN AmpEntity \o ReplaceAmp(Tail(s))
       ELSE <<Head(s)>> \o ReplaceAmp(Tail(s))

RECURSIVE WellFormedTree(_)
WellFormedTree(e) ==
  /\ WellFormedText(e.text)
  /\ \A n \in DOMAIN e.attrib : WellFormedAttr(e.attrib[n])
  /\ \A k \in DOMAIN e.kids : WellFormedTree(e.kids[k])

RECURSIVE UnescapeTree(_)
UnescapeTree(e) ==
  [e EXCEPT !.text = Unescape(e.text),
            !.attrib = [n \in DOMAIN e.attrib |-> UnescapeAttr(e.attrib[n])],
            !.kids = [k \in DOMAIN e.kids |-> UnescapeTree(e.kids[k])]]

\* the replacement of line 37 reaches every "&" of the document: those of
\* the attribute values and those of the character data
RECURSIVE ReplaceAmpTree(_)
ReplaceAmpTree(e) ==
  [e EXCEPT !.text = ReplaceAmp(e.text),
            !.attrib = [n \in DOMAIN e.attrib |-> ReplaceAmp(e.attrib[n])],
            !.kids = [k \in DOMAIN e.kids |-> ReplaceAmpTree(e.kids[k])]]

(***************************************************************************)
(* The bytes of a document: [defect, tree].  tree is the element tree      *)
(* with its text and attributes as written.  defect tells what else is    *)
(* wrong with the bytes:                                                   *)
(*   "none"      nothing;                                                  *)
(*   "syntax"    a well-formedness error that is not a bad "&" (a          *)
(*               file cut short, a mismatched tag);                        *)
(*   "bad_utf8"  bytes that are not UTF-8, which the parser rejects and    *)
(*               decode(errors="ignore") discards;                         *)
(*   "encoding"  an XML declaration that names an encoding the parser      *)
(*               does not support: ET.fromstring raises ValueError or      *)
(*               LookupError for it, not ParseError, and ignores the       *)
(*               declaration when it is handed decoded text.               *)
(***************************************************************************)
Defects == {"none", "syntax", "bad_utf8", "encoding"}

Bytes(defect, tree) == [defect |-> defect, tree |-> tree]

\* the bytes of length 0, b"": they hold no tree
EmptyBytes == [defect |-> "empty"]

\* ET.fromstring: [ok |-> TRUE, root |-> element], or [ok |-> FALSE, exc |-> the
\* class of the exception raised]
fromstring(d) ==
  IF d.defect = "encoding"
  THEN [ok |-> FALSE, exc |-> "ValueError"]
  ELSE IF d = EmptyBytes \/ d.defect # "none" \/ ~WellFormedTree(d.tree)
       THEN [ok |-> FALSE, exc |-> "ParseError"]
       ELSE [ok |-> TRUE, root |-> UnescapeTree(d.tree)]

\* data.decode("utf-8", errors="ignore").replace("&", "&amp;")
fixed(d) ==
  IF d = EmptyBytes THEN EmptyBytes
  ELSE [defect |-> IF d.defect \in {"bad_utf8", "encoding"} THEN "none" ELSE d.defect,
        tree |-> ReplaceAmpTree(d.tree)]

\* the tags of line 41 without the last one
LangTagsNoDesc == {"display-name", "title"}

\* the tags of line 41
LangTags == {"display-name", "title", "desc"}

\* NeedsLang that does not look whether lang is there
NeedsLangAlways(elem) == elem.tag \in LangTags

\* an element the loops of lines 41-43 select: one of the tags, no lang attribute
NeedsLang(elem) == elem.tag \in LangTags /\ "lang" \notin DOMAIN elem.attrib

\* lines 41-44 on one element: every descendant (never the element itself)
\* that the loops select gets lang = DEFAULT_LANG
RECURSIVE EnsureLang(_)
EnsureLang(e) ==
  [e EXCEPT !.kids =
     [k \in DOMAIN e.kids |->
        LET kid == EnsureLang(e.kids[k])
        IN  IF NeedsLang(kid) THEN SetAttr(kid, "lang", DEFAULT_LANG) ELSE kid]]

\* safe_parse_xml(data, url): [ok, root, log]; ok = FALSE when an exception
\* leaves it: one of line 33 that is no ParseError, or one of line 38
safe_parse_xml(d, url) ==
  LET first  == fromstring(d)
      second == fromstring(fixed(d))
  IN  IF first.ok
      THEN [ok |-> TRUE, root |-> EnsureLang(first.root), log |-> <<>>]
      ELSE IF first.exc # "ParseError"
           THEN [ok |-> FALSE, log |-> <<>>]
           ELSE IF second.ok
                THEN [ok |-> TRUE, root |-> EnsureLang(second.root),
                      log |-> << <<"parse_error", url>> >>]
                ELSE [ok |-> FALSE, log |-> << <<"parse_error", url>> >>]

(***************************************************************************)
(* An HTTP response: [status, kind, payload].  status is "ok", or          *)
(* "http_error" (raise_for_status raises) or "network" (requests.get       *)
(* raises, timeout included).  kind tells what the content is: "plain"     *)
(* bytes, a "gzip" stream of the payload, or "bad_gzip": bytes that        *)
(* start with the gzip magic 1f 8b and do not decompress.                  *)
(***************************************************************************)
Response(status, kind, payload) ==
  [status |-> status, kind |-> kind, payload |-> payload]

\* gzip.open(io.BytesIO(data)).read(), line 25: the payload of a gzip
\* stream, nothing for no bytes at all, and an exception for other bytes
Decompress(resp) ==
  IF resp.kind = "gzip" THEN [ok |-> TRUE, data |-> resp.payload]
  ELSE IF resp.kind = "plain" /\ resp.payload = EmptyBytes
       THEN [ok |-> TRUE, data |-> EmptyBytes]
       ELSE [ok |-> FALSE]

\* download_epg(url): [ok, data, log]; ok = FALSE when an exception leaves it
download_epg(url, resp) ==
  LET start == << <<"downloading", url>> >>
  IN  IF resp.status # "ok"
      THEN [ok |-> FALSE, log |-> start]
      ELSE IF url \in GzUrls \/ resp.kind \in {"gzip", "bad_gzip"}
           THEN IF Decompress(resp).ok
                THEN [ok |-> TRUE, data |-> Decompress(resp).data,
                      log |-> start \o << <<"decompressing">> >>]
                ELSE [ok |-> FALSE, log |-> start \o << <<"decompressing">> >>]
           ELSE [ok |-> TRUE, data |-> resp.payload, log |-> start]

(***************************************************************************)
(* merge_epgs                                                              *)
(***************************************************************************)
\* merged_root = ET.Element("tv"), line 51
NewTv == Elem("tv", NoAttrib, <<>>, <<>>)

\* the state of one call: the tree under construction and the two seen sets
MergeState(tree, channels, programs) ==
  [merged_root |-> tree, seen_channels |-> channels, seen_programs |-> programs]

\* merged_root.append(elem)
AppendKid(tree, elem) == [tree EXCEPT !.kids = Append(@, elem)]

\* the key of line 65
ProgKey(prog) == <<Get(prog, "channel"), Get(prog, "start"), Get(prog, "stop")>>

\* Truthy with the empty string taken for true
TruthyNotNone(v) == v # None

\* "if cid": None and the empty string are false
Truthy(v) == v # None /\ v # <<>>

\* ChannelStep that does not record the id it has appended
ChannelStepForgets(m, ch) ==
  LET cid == Get(ch, "id")
  IN  IF Truthy(cid) /\ cid \notin m.seen_channels
      THEN MergeState(AppendKid(m.merged_root, ch),
                      m.seen_channels, m.seen_programs)
      ELSE m

\* ChannelStep that appends every channel whose id is absent or empty
ChannelStepLenient(m, ch) ==
  LET cid == Get(ch, "id")
  IN  IF ~Truthy(cid)
      THEN MergeState(AppendKid(m.merged_root, ch),
                      m.seen_channels, m.seen_programs)
      ELSE IF cid \notin m.seen_channels
           THEN MergeState(AppendKid(m.merged_root, ch),
                           m.seen_channels \cup {cid}, m.seen_programs)
           ELSE m

\* the body of the channel loop, lines 58-61
ChannelStep(m, ch) ==
  LET cid == Get(ch, "id")
  IN  IF Truthy(cid) /\ cid \notin m.seen_channels
      THEN MergeState(AppendKid(m.merged_root, ch),
                      m.seen_channels \cup {cid}, m.seen_programs)
      ELSE m

\* ProgrammeStep that appends without looking at the keys seen
ProgrammeStepNoCheck(m, prog) ==
  MergeState(AppendKid(m.merged_root, prog),
             m.seen_channels, m.seen_programs \cup {ProgKey(prog)})

\* the body of the programme loop, lines 65-68
ProgrammeStep(m, prog) ==
  LET key == ProgKey(prog)
  IN  IF key \notin m.seen_programs
      THEN MergeState(AppendKid(m.merged_root, prog),
                      m.seen_channels, m.seen_programs \cup {key})
      ELSE m

RECURSIVE ChannelLoop(_, _)
ChannelLoop(m, chs) ==
  IF chs = <<>> THEN m ELSE ChannelLoop(ChannelStep(m, Head(chs)), Tail(chs))

RECURSIVE ProgrammeLoop(_, _)
ProgrammeLoop(m, progs) ==
  IF progs = <<>> THEN m
  ELSE ProgrammeLoop(ProgrammeStep(m, Head(progs)), Tail(progs))

\* the loop over the documents, lines 55-68
RECURSIVE RootLoop(_, _)
RootLoop(m, roots) ==
  IF roots = <<>> THEN m
  ELSE RootLoop(ProgrammeLoop(ChannelLoop(m, findall(Head(roots), "channel")),
                              findall(Head(roots), "programme")),
                Tail(roots))

\* merge_epgs(epg_roots): the tree it returns
merge_epgs(roots) == RootLoop(MergeState(NewTv, {}, {}), roots).merged_root

(***************************************************************************)
(* Inputs of the whole run                                                 *)
(***************************************************************************)
Unset == [unset |-> TRUE]

Bg1 == <<"b", "g", "1">>

Bg2 == <<"b", "g", "2">>

Bg3 == <<"b", "g", "3">>

T1 == <<"t", "1">>

T2 == <<"t", "2">>

En == <<"e", "n">>

\* the id A&E as a well-formed document writes it
AmpE == <<"A", "&", "a", "m", "p", ";", "E">>

Leaf(tag, attrib, text) == Elem(tag, attrib, text, <<>>)

Tv(kids) == Elem("tv", NoAttrib, <<>>, kids)

RunTrees ==
  { Tv(<<>>),
    Tv(<< Elem("channel", [id |-> AmpE], <<>>,
               << Leaf("display-name", NoAttrib, <<"R", "&", "B">>) >>) >>),
    Tv(<< Elem("programme", [channel |-> Bg1, start |-> T1, stop |-> T2], <<>>,
               << Leaf("title", [lang |-> En], <<"A">>) >>),
          Elem("channel", [id |-> Bg1], <<>>,
               << Leaf("display-name", NoAttrib, <<"A">>) >>) >>) }

RunPayloads == { Bytes(e, t) : e \in Defects, t \in RunTrees } \cup {EmptyBytes}

Responses ==
  { Response(s, "plain", Bytes("none", Tv(<<>>))) : s \in {"http_error", "network"} }
    \cup { Response("ok", "bad_gzip", Bytes("none", Tv(<<>>))) }
    \cup { Response("ok", k, p) : k \in {"plain", "gzip"}, p \in RunPayloads }

(***************************************************************************)
(* main                                                                    *)
(***************************************************************************)
Init ==
  /\ pc = "download"
  /\ i = 1
  /\ fetched = <<>>
  /\ data = Unset
  /\ root = Unset
  /\ epg_roots = <<>>
  /\ log = <<>>
  /\ merged_root = Unset
  /\ seen_channels = {}
  /\ seen_programs = {}
  /\ ri = 0
  /\ ei = 0
  /\ file = Unset

\* the next iteration of "for url in EPG_URLS", or the statement after the loop
NextUrl ==
  /\ i' = i + 1
  /\ pc' = IF i < Len(EPG_URLS) THEN "download" ELSE "check"

\* line 88, with the except clause of lines 91-92 when download_epg raises
Download ==
  /\ pc = "download"
  /\ \E resp \in Responses :
       LET r == download_epg(EPG_URLS[i], resp)
       IN  /\ fetched' = Append(fetched, resp)
           /\ IF r.ok
              THEN /\ data' = r.data
                   /\ log' = log \o r.log
                   /\ pc' = "parse"
                   /\ i' = i
              ELSE /\ data' = data
                   /\ log' = log \o r.log \o << <<"failed", EPG_URLS[i]>> >>
                   /\ NextUrl
  /\ UNCHANGED <<root, epg_roots, merged_root, seen_channels, seen_programs,
                 ri, ei, file>>

\* lines 89-90, with the except clause of lines 91-92 when safe_parse_xml raises
Parse ==
  /\ pc = "parse"
  /\ LET r == safe_parse_xml(data, EPG_URLS[i])
     IN  IF r.ok
         THEN /\ root' = r.root
              /\ epg_roots' = Append(epg_roots, r.root)
              /\ log' = log \o r.log
         ELSE /\ root' = root
              /\ epg_roots' = epg_roots
              /\ log' = log \o r.log \o << <<"failed", EPG_URLS[i]>> >>
  /\ NextUrl
  /\ UNCHANGED <<fetched, data, merged_root, seen_channels, seen_programs, ri, ei, file>>

\* lines 94-96
NoValidData ==
  /\ pc = "check"
  /\ epg_roots = <<>>
  /\ log' = Append(log, <<"no_valid_data">>)
  /\ pc' = "done"
  /\ UNCHANGED <<i, fetched, data, root, epg_roots, merged_root, seen_channels,
                 seen_programs, ri, ei, file>>

\* CallMerge without the test of line 94
CallMergeUnguarded ==
  /\ pc = "check"
  /\ merged_root' = NewTv
  /\ seen_channels' = {}
  /\ seen_programs' = {}
  /\ ri' = 0
  /\ ei' = 0
  /\ pc' = "for_root"
  /\ UNCHANGED <<i, fetched, data, root, epg_roots, log, file>>

\* line 98 enters merge_epgs: lines 51-53
CallMerge ==
  /\ pc = "check"
  /\ epg_roots # <<>>
  /\ merged_root' = NewTv
  /\ seen_channels' = {}
  /\ seen_programs' = {}
  /\ ri' = 0
  /\ ei' = 0
  /\ pc' = "for_root"
  /\ UNCHANGED <<i, fetched, data, root, epg_roots, log, file>>

CurrentMerge == MergeState(merged_root, seen_channels, seen_programs)

SetMerge(m) ==
  /\ merged_root' = m.merged_root
  /\ seen_channels' = m.seen_channels
  /\ seen_programs' = m.seen_programs

\* line 55: the next document, ri counts the documents entered
ForRoot ==
  /\ pc = "for_root"
  /\ ri < Len(epg_roots)
  /\ ri' = ri + 1
  /\ ei' = 0
  /\ pc' = "for_channel"
  /\ UNCHANGED <<i, fetched, data, root, epg_roots, log, merged_root, seen_channels,
                 seen_programs, file>>

\* lines 57-61: one iteration, ei counts the channels visited
ForChannel ==
  /\ pc = "for_channel"
  /\ ei < Len(findall(epg_roots[ri], "channel"))
  /\ SetMerge(ChannelStep(CurrentMerge, findall(epg_roots[ri], "channel")[ei + 1]))
  /\ ei' = ei + 1
  /\ UNCHANGED <<pc, i, fetched, data, root, epg_roots, log, ri, file>>

\* the channel loop is exhausted, line 64 starts
EndChannels ==
  /\ pc = "for_channel"
  /\ ei = Len(findall(epg_roots[ri], "channel"))
  /\ ei' = 0
  /\ pc' = "for_programme"
  /\ UNCHANGED <<i, fetched, data, root, epg_roots, log, merged_root, seen_channels,
                 seen_programs, ri, file>>

\* lines 64-68: one iteration, ei counts the programmes visited
ForProgramme ==
  /\ pc = "for_programme"
  /\ ei < Len(findall(epg_roots[ri], "programme"))
  /\ SetMerge(ProgrammeStep(CurrentMerge,
                            findall(epg_roots[ri], "programme")[ei + 1]))
  /\ ei' = ei + 1
  /\ UNCHANGED <<pc, i, fetched, data, root, epg_roots, log, ri, file>>

\* the programme loop is exhausted, back to line 55
EndProgrammes ==
  /\ pc = "for_programme"
  /\ ei = Len(findall(epg_roots[ri], "programme"))
  /\ ei' = 0
  /\ pc' = "for_root"
  /\ UNCHANGED <<i, fetched, data, root, epg_roots, log, merged_root, seen_channels,
                 seen_programs, ri, file>>

\* lines 70-71
MergeReturn ==
  /\ pc = "for_root"
  /\ ri = Len(epg_roots)
  /\ log' = Append(log, <<"merged", Cardinality(seen_channels),
                          Cardinality(seen_programs)>>)
  /\ pc' = "merged"
  /\ UNCHANGED <<i, fetched, data, root, epg_roots, merged_root, seen_channels,
                 seen_programs, ri, ei, file>>

\* what is at OUTPUT_FILE when the write of line 77 raises after it has
\* opened the file: the opening has emptied the file, and a part of the
\* serialisation may have reached it
Truncated == [name |-> OUTPUT_FILE, truncated |-> TRUE]

\* the outcomes of the write of line 77: it completes, it raises before the
\* file is opened, or it raises after
WriteOutcomes == {"written", "not_opened", "partial"}

\* save_epg(merged_root, OUTPUT_FILE), lines 76-80; the exception of a
\* failed write is caught and reported, whatever it has left at OUTPUT_FILE
SaveEpg ==
  /\ pc = "merged"
  /\ \E outcome \in WriteOutcomes :
       /\ file' = CASE outcome = "written" ->
                         [name |-> OUTPUT_FILE, encoding |-> "utf-8",
                          xml_declaration |-> TRUE, root |-> merged_root]
                    [] outcome = "not_opened" -> file
                    [] outcome = "partial" -> Truncated
       /\ log' = Append(log, IF outcome = "written"
                             THEN <<"saved", OUTPUT_FILE>>
                             ELSE <<"save_error">>)
  /\ pc' = "done"
  /\ UNCHANGED <<i, fetched, data, root, epg_roots, merged_root, seen_channels,
                 seen_programs, ri, ei>>

MergeNext ==
  \/ ForRoot
  \/ ForChannel
  \/ EndChannels
  \/ ForProgramme
  \/ EndProgrammes
  \/ MergeReturn

Next ==
  \/ Download
  \/ Parse
  \/ NoValidData
  \/ CallMerge
  \/ MergeNext
  \/ SaveEpg

Spec == Init /\ [][Next]_vars

(***************************************************************************)
(* merge_epgs on its own: up to MaxDocs parsed documents (their lang       *)
(* attributes are already there) with up to MaxElems elements of one       *)
(* palette in all                                                          *)
(***************************************************************************)
Chan(attrib, name) ==
  Elem("channel", attrib, <<>>, << Leaf("display-name", [lang |-> DEFAULT_LANG], name) >>)

Prog(attrib, title) ==
  Elem("programme", attrib, <<>>, << Leaf("title", [lang |-> DEFAULT_LANG], title) >>)

\* channels with ids, two of them with the same id and different children
ChannelElems ==
  { Chan([id |-> Bg1], <<"A">>),
    Chan([id |-> Bg2], <<"A">>),
    Chan([id |-> Bg2], <<"B">>),
    Chan([id |-> Bg3], <<"B">>) }

\* channels without an id or with an empty one, next to ordinary elements
IdlessElems ==
  { Chan([id |-> Bg1], <<"A">>),
    Chan(NoAttrib, <<"A">>),
    Chan([id |-> <<>>], <<"A">>),
    Prog([channel |-> Bg1, stop |-> T2], <<"A">>) }

\* programmes with equal keys and different children, and keys whose start
\* is present, absent and empty
ProgrammeElems ==
  { Prog([channel |-> Bg1, start |-> T1, stop |-> T2], <<"A">>),
    Prog([channel |-> Bg1, start |-> T1, stop |-> T2], <<"B">>),
    Prog([channel |-> Bg1, stop |-> T2], <<"A">>),
    Prog([channel |-> Bg1, start |-> <<>>, stop |-> T2], <<"A">>) }

MergePalettes == { ChannelElems, IdlessElems, ProgrammeElems }

\* the ways to cut a sequence of elements into n documents: c[k] is the
\* number of elements in the first k documents
Cuts(flat, n) ==
  { c \in [1..n -> 0..Len(flat)] :
      /\ \A k \in 1..(n - 1) : c[k] <= c[k + 1]
      /\ IF n = 0 THEN flat = <<>> ELSE c[n] = Len(flat) }

CutInto(flat, c) ==
  [k \in DOMAIN c |->
     Tv(SubSeq(flat, (IF k = 1 THEN 0 ELSE c[k - 1]) + 1, c[k]))]

InitMerge ==
  /\ pc = "for_root"
  /\ i = Len(EPG_URLS) + 1
  /\ fetched = <<>>
  /\ data = Unset
  /\ root = Unset
  /\ \E P \in MergePalettes :
       \E flat \in BSeq(P, MaxElems) :
         \E n \in 0..MaxDocs :
           \E c \in Cuts(flat, n) : epg_roots = CutInto(flat, c)
  /\ log = <<>>
  /\ merged_root = NewTv
  /\ seen_channels = {}
  /\ seen_programs = {}
  /\ ri = 0
  /\ ei = 0
  /\ file = Unset

SpecMerge == InitMerge /\ [][MergeNext]_vars

(***************************************************************************)
(* safe_parse_xml on its own: the bytes are drawn from a bounded set       *)
(***************************************************************************)
ParseElems ==
  { Leaf("title", NoAttrib, <<"A", "&", "g", "t", ";", "B">>),
    Leaf("desc", [src |-> <<"x">>], <<>>),
    Leaf("category", NoAttrib, <<"A", "U+12", "B">>),
    Elem("channel", [id |-> AmpE], <<>>,
         << Leaf("display-name", NoAttrib, <<"R", "&", "B">>) >>),
    Elem("channel", [id |-> Bg1], <<>>,
         << Leaf("display-name", [lang |-> <<>>], <<"A">>) >>),
    Elem("programme", [channel |-> Bg1, start |-> T1, stop |-> T2], <<>>,
         << Leaf("title", [lang |-> En], <<"R", "&", "a", "m", "p", ";", "B">>),
            Leaf("category", NoAttrib, <<"A">>) >>),
    Elem("programme", [channel |-> Bg1, start |-> T1], <<>>,
         << Elem("credits", NoAttrib, <<>>,
                 << Leaf("desc", NoAttrib, <<"R", "&", "B">>) >>) >>) }

ParseInputs ==
  { Bytes(e, Elem(t, NoAttrib, <<>>, kids)) :
      e \in Defects, t \in {"tv", "title"}, kids \in BSeq(ParseElems, MaxKids) }
    \cup {EmptyBytes}

InitParse ==
  /\ pc = "parse"
  /\ i \in DOMAIN EPG_URLS
  /\ fetched = <<>>
  /\ data \in ParseInputs
  /\ root = Unset
  /\ epg_roots = <<>>
  /\ log = <<>>
  /\ merged_root = Unset
  /\ seen_channels = {}
  /\ seen_programs = {}
  /\ ri = 0
  /\ ei = 0
  /\ file = Unset

ParseNext == Parse

SpecParse == InitParse /\ [][ParseNext]_vars

(***************************************************************************)
(* Notions the properties are stated with                                  *)
(***************************************************************************)
\* the children of the merged tree, none before merge_epgs has been entered
Merged == IF merged_root = Unset THEN <<>> ELSE merged_root.kids

\* the children with the given tag of all input documents, in input order
RECURSIVE AllOf(_, _)
AllOf(roots, tag) ==
  IF roots = <<>> THEN <<>>
  ELSE FilterTag(Head(roots).kids, tag) \o AllOf(Tail(roots), tag)

\* the subsequence of seq at the positions of S that are at least k
RECURSIVE Restrict(_, _, _)
Restrict(seq, S, k) ==
  IF k > Len(seq) THEN <<>>
  ELSE (IF k \in S THEN <<seq[k]>> ELSE <<>>) \o Restrict(seq, S, k + 1)

HasId(e) == "id" \in DOMAIN e.attrib /\ e.attrib["id"] # <<>>

SameAttr(p, q, n) ==
  /\ (n \in DOMAIN p.attrib) <=> (n \in DOMAIN q.attrib)
  /\ (n \in DOMAIN p.attrib) => p.attrib[n] = q.attrib[n]

\* equal (channel, start, stop), an absent attribute equal to an absent one only
SameKey(p, q) == \A n \in {"channel", "start", "stop"} : SameAttr(p, q, n)

KeyFieldMissing(p) == \E n \in {"channel", "start", "stop"} : n \notin DOMAIN p.attrib

InputChannels == AllOf(epg_roots, "channel")

InputProgrammes == AllOf(epg_roots, "programme")

\* C1: at every step of the merge, no two channels of the merged tree have
\* the same id and no two of its programmes the same (channel, start, stop),
\* an absent attribute counting as a value of its own
C1_Unique ==
  \A a, b \in DOMAIN Merged :
     a # b =>
       /\ ~ ( /\ Merged[a].tag = "channel"
              /\ Merged[b].tag = "channel"
              /\ "id" \in DOMAIN Merged[a].attrib
              /\ SameAttr(Merged[a], Merged[b], "id") )
       /\ ~ ( /\ Merged[a].tag = "programme"
              /\ Merged[b].tag = "programme"
              /\ SameKey(Merged[a], Merged[b]) )

\* the merge has ended on inputs with two channels of one id and two
\* programmes of one key that lacks a field
C1_Witness ==
  /\ pc = "merged"
  /\ \E a, b \in DOMAIN InputChannels :
        a # b /\ HasId(InputChannels[a]) /\ SameAttr(InputChannels[a], InputChannels[b], "id")
  /\ \E a, b \in DOMAIN InputProgrammes :
        /\ a # b
        /\ KeyFieldMissing(InputProgrammes[a])
        /\ SameKey(InputProgrammes[a], InputProgrammes[b])
  /\ Len(FilterTag(Merged, "channel")) = 1
  /\ Len(FilterTag(Merged, "programme")) = 1

FirstOfItsId(seq) ==
  { k \in DOMAIN seq :
      HasId(seq[k]) /\ \A j \in 1..(k - 1) : ~SameAttr(seq[j], seq[k], "id") }

\* C2: when the merge has ended, the channels of the output that have a
\* non-empty id are, in order, the input channels that are the first of
\* their id in the concatenation of the inputs
C2_FirstSeenChannel ==
  pc = "merged" =>
    Restrict(FilterTag(Merged, "channel"),
             { k \in DOMAIN FilterTag(Merged, "channel") :
                 HasId(FilterTag(Merged, "channel")[k]) }, 1)
      = Restrict(InputChannels, FirstOfItsId(InputChannels), 1)

\* the example: A = {bg1, bg2}, B = {bg2, bg3} gives bg1, A's bg2, bg3
C2_Witness ==
  /\ pc = "merged"
  /\ epg_roots = << Tv(<< Chan([id |-> Bg1], <<"A">>), Chan([id |-> Bg2], <<"A">>) >>),
                    Tv(<< Chan([id |-> Bg2], <<"B">>), Chan([id |-> Bg3], <<"B">>) >>) >>
  /\ Merged = << Chan([id |-> Bg1], <<"A">>), Chan([id |-> Bg2], <<"A">>),
                 Chan([id |-> Bg3], <<"B">>) >>

FirstOfItsKey(seq) ==
  { k \in DOMAIN seq : \A j \in 1..(k - 1) : ~SameKey(seq[j], seq[k]) }

\* C3: when the merge has ended, the programmes of the output are, in
\* order, the input programmes that are the first of their key in the
\* concatenation of the inputs
C3_ProgrammesFirstSeen ==
  pc = "merged" =>
    FilterTag(Merged, "programme")
      = Restrict(InputProgrammes, FirstOfItsKey(InputProgrammes), 1)

\* a key without start, the same key with an empty start and with a start
\* are all kept, and a repeated key is dropped
C3_Witness ==
  /\ pc = "merged"
  /\ Len(InputProgrammes) = 4
  /\ Len(FilterTag(Merged, "programme")) = 3
  /\ \E a, b \in DOMAIN Merged :
        /\ Merged[a].tag = "programme"
        /\ Merged[b].tag = "programme"
        /\ "start" \notin DOMAIN Merged[a].attrib
        /\ "start" \in DOMAIN Merged[b].attrib
        /\ Merged[b].attrib["start"] = <<>>
        /\ SameAttr(Merged[a], Merged[b], "channel")
        /\ SameAttr(Merged[a], Merged[b], "stop")

\* C4 as stated: in the merged tree every channel precedes every programme
C4_ChannelsBeforeProgrammes ==
  \A a, b \in DOMAIN Merged :
     (Merged[a].tag = "programme" /\ Merged[b].tag = "channel") => b < a

Idless(seq) == { k \in DOMAIN seq : seq[k].tag = "channel" /\ ~HasId(seq[k]) }

\* C5 as stated: the output has as many channels without a non-empty id as
\* the inputs have
C5_IdlessAllAppended ==
  pc = "merged" => Cardinality(Idless(Merged)) = Cardinality(Idless(InputChannels))

\* C5 amended: no channel without a non-empty id is ever in the merged tree
C5_IdlessNeverAppended == Idless(Merged) = {}

\* the merge has ended on inputs with a channel without id and a channel
\* with an empty id, and a channel with an id was appended
C5_Witness ==
  /\ pc = "merged"
  /\ \E k \in DOMAIN InputChannels : "id" \notin DOMAIN InputChannels[k].attrib
  /\ \E k \in DOMAIN InputChannels :
        "id" \in DOMAIN InputChannels[k].attrib /\ InputChannels[k].attrib["id"] = <<>>
  /\ Len(Merged) > 0

\* C6: the merge of a document with itself ends in the tree that the merge
\* of the document alone returns
C6_Idempotent ==
  (pc = "merged" /\ Len(epg_roots) = 2 /\ epg_roots[1] = epg_roots[2])
    => merged_root = merge_epgs(<< epg_roots[1] >>)

\* the merge of <<D, D>> has ended, D with a channel without id and a
\* programme whose key lacks a field
C6_Witness ==
  /\ pc = "merged"
  /\ Len(epg_roots) = 2
  /\ epg_roots[1] = epg_roots[2]
  /\ Idless(epg_roots[1].kids) # {}
  /\ \E k \in DOMAIN epg_roots[1].kids :
        epg_roots[1].kids[k].tag = "programme" /\ KeyFieldMissing(epg_roots[1].kids[k])
  /\ Len(Merged) = 1

(***************************************************************************)
(* The run of main, told from the responses the sources gave               *)
(***************************************************************************)
Count(name) == Cardinality({ k \in DOMAIN log : log[k][1] = name })

\* the fetch of source k gave bytes: the request succeeded and the content
\* was decompressed wherever the URL or the content called for it
SourceFetched(k) ==
  /\ fetched[k].status = "ok"
  /\ fetched[k].kind # "bad_gzip"
  /\ EPG_URLS[k] \in GzUrls =>
       fetched[k].kind = "gzip" \/ fetched[k].payload = EmptyBytes

DirectParse(k) == fromstring(fetched[k].payload).ok

RepairedParse(k) == fromstring(fixed(fetched[k].payload)).ok

\* the source gave a document by the direct parse or by the repaired one
SourceOk(k) == SourceFetched(k) /\ (DirectParse(k) \/ RepairedParse(k))

\* the source failed: at the fetch, or at the parse with the error that
\* left safe_parse_xml
SourceFailed(k) ==
  \/ ~SourceFetched(k)
  \/ /\ ~DirectParse(k)
     /\ fromstring(fetched[k].payload).exc = "ParseError" => ~RepairedParse(k)

Document(k) ==
  EnsureLang(IF DirectParse(k)
             THEN fromstring(fetched[k].payload).root
             ELSE fromstring(fixed(fetched[k].payload)).root)

\* the documents of the sources 1..n that succeeded, in configured order
RECURSIVE Expected(_)
Expected(n) ==
  IF n = 0 THEN <<>>
  ELSE IF SourceOk(n) THEN Append(Expected(n - 1), Document(n))
       ELSE Expected(n - 1)

Writes == Count("saved") + Count("save_error")

\* C7: the merger and the writer are invoked only when a source succeeded.
\* A run in which every source failed ends with the terminal message and
\* without merge or write, and any other run ends with one merge followed
\* by one write
C7_NoValidSourcesHalt ==
  /\ (merged_root # Unset \/ file # Unset \/ Count("merged") > 0 \/ Writes > 0)
       => \E k \in DOMAIN fetched : ~SourceFailed(k)
  /\ pc = "done" =>
       IF \A k \in DOMAIN EPG_URLS : SourceFailed(k)
       THEN /\ log[Len(log)] = <<"no_valid_data">>
            /\ Count("no_valid_data") = 1
            /\ Count("merged") = 0
            /\ Writes = 0
            /\ merged_root = Unset
            /\ file = Unset
       ELSE /\ Count("no_valid_data") = 0
            /\ Count("merged") = 1
            /\ Writes = 1
            /\ log[Len(log) - 1][1] = "merged"
            /\ log[Len(log)][1] \in {"saved", "save_error"}

\* a run has ended in which one fetch failed, one source failed both parses
\* and one source did not decompress
C7_Witness ==
  /\ pc = "done"
  /\ fetched[1].status = "network"
  /\ SourceFetched(2) /\ ~DirectParse(2) /\ ~RepairedParse(2)
  /\ fetched[3].status = "ok" /\ ~SourceFetched(3)
  /\ log[Len(log)] = <<"no_valid_data">>

\* C8 as stated: at every point of the loop the documents collected are
\* those of the sources processed so far whose fetch succeeded and whose
\* direct or repaired parse succeeds, in configured order; every other
\* processed source has its "failed" line; and every source is fetched, in
\* order
C8_FailureContainment ==
  /\ epg_roots = Expected(i - 1)
  /\ Count("failed") = Cardinality({ k \in 1..(i - 1) : ~SourceOk(k) })
  /\ Restrict(log, { k \in DOMAIN log : log[k][1] = "downloading" }, 1)
       = [k \in DOMAIN fetched |-> <<"downloading", EPG_URLS[k]>>]
  /\ pc \notin {"download", "parse"} => Len(fetched) = Len(EPG_URLS)
  /\ Len(fetched) = IF pc = "parse" THEN i ELSE i - 1

(***************************************************************************)
(* safe_parse_xml, told element by element                                 *)
(***************************************************************************)
\* the positions of the elements of a tree: <<>> is the root, <<k>> \o p is
\* position p under the k-th child
RECURSIVE Paths(_)
Paths(e) ==
  {<<>>} \cup UNION { { <<k>> \o p : p \in Paths(e.kids[k]) } : k \in DOMAIN e.kids }

RECURSIVE At(_, _)
At(e, p) == IF p = <<>> THEN e ELSE At(e.kids[Head(p)], Tail(p))

\* safe_parse_xml has returned a document for the bytes in data
Parsed == pc # "parse" /\ data # Unset /\ root # Unset /\ epg_roots # <<>>

\* the tree the parser gave, before lines 41-44
BeforeLang ==
  IF fromstring(data).ok THEN fromstring(data).root ELSE fromstring(fixed(data)).root

ThreeTags(e) == e.tag = "display-name" \/ e.tag = "title" \/ e.tag = "desc"

\* C9 as stated: every display-name, title and desc below the root of a
\* returned document has a lang attribute that is not empty
C9_LangNonEmpty ==
  Parsed =>
    \A p \in Paths(root) \ {<<>>} :
       ThreeTags(At(root, p)) =>
         "lang" \in DOMAIN At(root, p).attrib /\ At(root, p).attrib["lang"] # <<>>

\* C9 amended: every such element has a lang attribute, and it is empty
\* only where the parsed element came with an empty lang
C9_LangPresent ==
  Parsed =>
    \A p \in Paths(root) \ {<<>>} :
       ThreeTags(At(root, p)) =>
         /\ "lang" \in DOMAIN At(root, p).attrib
         /\ At(root, p).attrib["lang"] = <<>> =>
              /\ "lang" \in DOMAIN At(BeforeLang, p).attrib
              /\ At(BeforeLang, p).attrib["lang"] = <<>>

\* a document was returned after the repair, with a desc two levels down
\* that came without lang and a display-name that came with an empty lang
C9_Witness ==
  /\ Parsed
  /\ Count("parse_error") = 1
  /\ \E p \in Paths(root) :
        /\ Len(p) = 3
        /\ At(root, p).tag = "desc"
        /\ "lang" \notin DOMAIN At(BeforeLang, p).attrib
        /\ At(root, p).attrib["lang"] = DEFAULT_LANG
  /\ \E p \in Paths(root) :
        /\ At(root, p).tag = "display-name"
        /\ "lang" \in DOMAIN At(root, p).attrib
        /\ At(root, p).attrib["lang"] = <<>>

\* C10: the returned tree is the parsed tree, element for element, but for
\* a lang attribute with the default language on every display-name, title
\* and desc below the root that had no lang
C10_OnlyMissingLang ==
  Parsed =>
    /\ Paths(root) = Paths(BeforeLang)
    /\ \A p \in Paths(BeforeLang) :
         LET a == At(BeforeLang, p)
             b == At(root, p)
         IN  /\ b.tag = a.tag
             /\ b.text = a.text
             /\ IF p # <<>> /\ ThreeTags(a) /\ "lang" \notin DOMAIN a.attrib
                THEN /\ DOMAIN b.attrib = DOMAIN a.attrib \cup {"lang"}
                     /\ b.attrib["lang"] = DEFAULT_LANG
                     /\ \A n \in DOMAIN a.attrib : b.attrib[n] = a.attrib[n]
                ELSE b.attrib = a.attrib

\* a document was returned with a title that kept its lang "en", a title
\* that got the default, another attribute kept next to the new lang, and
\* a category left without lang
C10_Witness ==
  /\ Parsed
  /\ \E p \in Paths(root) :
        /\ At(root, p).tag = "title"
        /\ "lang" \in DOMAIN At(BeforeLang, p).attrib
        /\ At(root, p).attrib["lang"] = En
  /\ \E p \in Paths(root) :
        /\ "lang" \notin DOMAIN At(BeforeLang, p).attrib
        /\ "lang" \in DOMAIN At(root, p).attrib
        /\ At(root, p).attrib["lang"] = DEFAULT_LANG
  /\ \E p \in Paths(root) :
        At(root, p).tag = "category" /\ "lang" \notin DOMAIN At(root, p).attrib
  /\ root.tag = "title" /\ "lang" \notin DOMAIN root.attrib

====
